---- MODULE Spec2Model ----
(***************************************************************************)
(* Model of the ETL repository: the extractor (extract.py), the batched    *)
(* loader (task-2/scripts/load.py), the transform and analysis stages and  *)
(* the orchestrator (run_pipeline.py).                                     *)
(*                                                                         *)
(* The wall clock is counted in whole seconds, the granularity of the raw   *)
(* file name: a second may end at any moment (Tick), and the 1 s backoff   *)
(* always ends one.                                                        *)
(***************************************************************************)
EXTENDS Integers, Sequences, FiniteSets, TLC

(* ------------------------------ bounds --------------------------------- *)
MaxCities == 2        \* longest configured city list
MaxClock == 3         \* last second of the wall clock
MaxHours == 1         \* longest hourly array of a payload
MaxRows == 401        \* largest staged dataset given to the loader script
MaxLoadRuns == 2      \* runs of the loader script
MaxFiles == 2         \* raw files read by transform.py run as a script
MaxLen == 2           \* length of an hourly array in those files

(* ------------------------- program constants --------------------------- *)
MAX_RETRIES == 3
BACKOFF == 1          \* time.sleep(1), in seconds
batch_size == 200
MaxAttempts == 3      \* while attempts < 3
NoFile == 0 - 1       \* the staged file does not exist

CITY_COORDS == {"Delhi", "Mumbai"}
CityNames == CITY_COORDS \cup {"Pune"}   \* "Pune" has no coordinates

\* what one requests.get can do: status 200, another 2xx status, a non-2xx
\* status, or an exception (timeout, connection error)
Outcomes == {"s200", "s2xx", "s5xx", "exception"}

\* the JSON body of a response: whether it has the "hourly" container, and
\* the length of the shortest hourly array
Payloads ==
  { p \in [hourly : BOOLEAN, len : 0..MaxHours] : ~p.hourly => p.len = 0 }

None == {}
Some(p) == {p}

RECURSIVE SeqsUpTo(_, _)
SeqsUpTo(S, n) ==
  IF n = 0 THEN {<<>>}
  ELSE LET prev == SeqsUpTo(S, n - 1)
       IN prev \cup { Append(s, x) : s \in {t \in prev : Len(t) = n - 1}, x \in S }

VARIABLES
  CITIES,        \* configured city list
  clock,         \* wall clock, in seconds
  rawStore,      \* RAW_DIR: file name |-> payload
  ex_pc,         \* position of extract_air_quality
  ex_i,          \* index of the city being processed
  attempt,       \* loop variable of fetch_with_retry
  data,          \* result of fetch_with_retry
  response,      \* what the last request of the fetch under way met
  saved_files,   \* list returned by extract_air_quality
  ex_err,        \* exception that ended extract_air_quality
  requests,      \* this run: city index |-> requests issued
  failures,      \* this run: city index |-> failed attempts
  fetched,       \* this run: city index |-> "pending" | "ok" | "none"
  written,       \* this run: city index |-> raw record written
  nPersisted,    \* raw writes that completed, over all runs
  runs,          \* runs of the loader script started
  staged,        \* rows of the staged file, or NoFile
  store,         \* rows of the remote table, in insertion order
  ld_pc,         \* position of load_data
  total,         \* len(rows)
  start,         \* loop variable of the batch loop
  attempts,      \* attempts counter of the current batch
  success,       \* success flag of the current batch
  tries,         \* this run: batch start |-> insert calls made
  inserts,       \* this run: batch start |-> insert calls that succeeded
  ld_failed,     \* this run: starts of the batches reported as not uploaded
  ld_report,     \* this run: "Upload completed successfully!" was printed
  ld_base,       \* len of the table when this run began
  ld_okruns,     \* runs of load_data that returned without a failed batch
  tr_pc,         \* position of transform_data
  tr_noraw,      \* this run: transform_data found no raw files
  tf_pc,         \* position of transform.py run as a script
  tf_files,      \* the files of RAW_DIR, in the order glob lists them
  tf_all_rows,   \* all_rows when the loop over the files has ended
  tf_df,         \* the frame written to OUTPUT_FILE
  an_pc,         \* position of the analysis main
  an_nodata,     \* this run: the analysis printed "No data found"
  an_query,      \* this run: "none" | "ok" | "failed", how the select ended
  an_out,        \* this run: "none" | "saved", the CSVs and plots of the analysis
  pl_pc,         \* stage the orchestrator is in
  started,       \* this run: stages started, in order
  outcome,       \* this run: stage |-> how run_step saw it end
  failedStage,   \* this run: stage named by "Pipeline stopped at"
  finished       \* this run: "PIPELINE FINISHED SUCCESSFULLY!" was printed

exVars == <<CITIES, clock, rawStore, ex_pc, ex_i, attempt, data, response,
            saved_files, ex_err, requests, failures, fetched, written,
            nPersisted>>
ldVars == <<store, ld_pc, total, start, attempts, success, tries,
            inserts, ld_failed, ld_report, ld_base, ld_okruns>>
trVars == <<tr_pc, tr_noraw>>
tfVars == <<tf_pc, tf_files, tf_all_rows, tf_df>>
anVars == <<an_pc, an_nodata, an_query, an_out>>
plVars == <<pl_pc, started, outcome, failedStage, finished>>
vars == <<exVars, runs, staged, ldVars, trVars, tfVars, anVars, plVars>>

\* what a step of extract_air_quality, of load_data leaves alone
exFrame == <<runs, staged, ldVars, trVars, tfVars, anVars, plVars>>
ldFrame == <<exVars, runs, staged, trVars, tfVars, anVars, plVars>>

(* ------------------------------ extract.py ----------------------------- *)

\* datetime.now().strftime("%Y%m%d_%H%M%S")
strftime(t) == t

\* os.path.join(RAW_DIR, f"{city}_raw_{timestamp}.json")
filepath(city, timestamp) == [city |-> city, ts |-> timestamp]

\* open(filepath, "w"); json.dump(data, f)
WriteFile(dir, fp, d) ==
  [k \in DOMAIN dir \cup {fp} |-> IF k = fp THEN d ELSE dir[k]]

\* for attempt in range(1, MAX_RETRIES + 1)
InRetryRange_m(a) == a <= MAX_RETRIES + 1
InRetryRange(a) == a <= MAX_RETRIES

\* if response.status_code == 200: return response.json()
IsSuccess_m(o) == o \in {"s200", "s5xx"}
IsSuccess(o) == o = "s200"

\* if data is None: continue
AfterFetch_m(d) == IF d = None THEN "abort" ELSE "save"
AfterFetch(d) == IF d = None THEN "continue" ELSE "save"

\* RAW_DIR before the run: empty, or holding one capture of an earlier run
\* made within the current second
InitialRaw ==
  {<< >>, (filepath("Delhi", 0) :> [hourly |-> TRUE, len |-> MaxHours])}

ExtractInit ==
  /\ CITIES \in SeqsUpTo(CityNames, MaxCities) \ {<< >>}
  /\ clock = 0
  /\ rawStore \in InitialRaw
  /\ ex_pc = "idle"
  /\ ex_i = 1
  /\ attempt = 1
  /\ data = None
  /\ response = "none"
  /\ saved_files = << >>
  /\ ex_err = "none"
  /\ requests = [i \in 1..Len(CITIES) |-> 0]
  /\ failures = [i \in 1..Len(CITIES) |-> 0]
  /\ fetched = [i \in 1..Len(CITIES) |-> "pending"]
  /\ written = [i \in 1..Len(CITIES) |-> FALSE]
  /\ nPersisted = Cardinality(DOMAIN rawStore)

\* extract_air_quality is called: saved_files = []
extract_air_quality ==
  /\ ex_pc' = "city"
  /\ ex_i' = 1
  /\ attempt' = 1
  /\ data' = None
  /\ response' = "none"
  /\ saved_files' = << >>
  /\ ex_err' = "none"
  /\ requests' = [i \in 1..Len(CITIES) |-> 0]
  /\ failures' = [i \in 1..Len(CITIES) |-> 0]
  /\ fetched' = [i \in 1..Len(CITIES) |-> "pending"]
  /\ written' = [i \in 1..Len(CITIES) |-> FALSE]
  /\ UNCHANGED <<CITIES, clock, rawStore, nPersisted>>

\* for city in CITIES: lat, lon = CITY_COORDS[city]; after the last city,
\* return saved_files
NextCity ==
  /\ ex_pc = "city"
  /\ IF ex_i > Len(CITIES)
       THEN ex_pc' = "returned" /\ ex_err' = ex_err
       ELSE IF CITIES[ex_i] \notin CITY_COORDS
              THEN ex_pc' = "raised" /\ ex_err' = "KeyError"
              ELSE ex_pc' = "fetch" /\ ex_err' = ex_err
  /\ attempt' = 1
  /\ UNCHANGED <<CITIES, clock, rawStore, ex_i, data, response, saved_files,
                 requests, failures, fetched, written, nPersisted>>
  /\ UNCHANGED exFrame

\* one pass of the loop of fetch_with_retry, and the return that follows it
fetch_with_retry(o, p) ==
  /\ ex_pc = "fetch"
  /\ InRetryRange(attempt)
  /\ requests' = [requests EXCEPT ![ex_i] = @ + 1]
  /\ response' = o
  /\ IF IsSuccess(o)
       THEN /\ data' = Some(p)
            /\ fetched' = [fetched EXCEPT ![ex_i] = "ok"]
            /\ ex_pc' = "fetched"
            /\ UNCHANGED <<failures, attempt, clock>>
       ELSE /\ clock + BACKOFF <= MaxClock
            /\ clock' = clock + BACKOFF
            /\ failures' = [failures EXCEPT ![ex_i] = @ + 1]
            /\ attempt' = attempt + 1
            /\ IF InRetryRange(attempt + 1)
                 THEN UNCHANGED <<data, fetched, ex_pc>>
                 ELSE /\ data' = None
                      /\ fetched' = [fetched EXCEPT ![ex_i] = "none"]
                      /\ ex_pc' = "fetched"
  /\ UNCHANGED <<CITIES, rawStore, ex_i, saved_files, ex_err, written, nPersisted>>
  /\ UNCHANGED exFrame

\* a request of fetch_with_retry, with what the provider answers
FetchAttempt == \E o \in Outcomes, p \in Payloads : fetch_with_retry(o, p)

\* back in extract_air_quality with the result of the fetch
FetchReturned ==
  /\ ex_pc = "fetched"
  /\ LET after == AfterFetch(data)
     IN /\ ex_pc' = IF after = "continue" THEN "city"
                    ELSE IF after = "save" THEN "save" ELSE "raised"
        /\ ex_i' = IF after = "continue" THEN ex_i + 1 ELSE ex_i
        /\ ex_err' = IF after = "abort" THEN "FetchFailure" ELSE ex_err
  /\ response' = "none"
  /\ UNCHANGED <<CITIES, clock, rawStore, attempt, data, saved_files, requests,
                 failures, fetched, written, nPersisted>>
  /\ UNCHANGED exFrame

\* the raw record is written and appended to saved_files; the 0.5 s sleep
\* that follows may or may not end the second (Tick)
SaveRaw ==
  /\ ex_pc = "save"
  /\ LET fp == filepath(CITIES[ex_i], strftime(clock))
     IN /\ rawStore' = WriteFile(rawStore, fp, CHOOSE d \in data : TRUE)
        /\ saved_files' = Append(saved_files, fp)
  /\ written' = [written EXCEPT ![ex_i] = TRUE]
  /\ nPersisted' = nPersisted + 1
  /\ ex_i' = ex_i + 1
  /\ ex_pc' = "city"
  /\ UNCHANGED <<CITIES, clock, attempt, data, response, ex_err, requests,
                 failures, fetched>>
  /\ UNCHANGED exFrame

\* open(filepath, "w") raises: nothing catches it in extract_air_quality
SaveRawFails ==
  /\ ex_pc = "save"
  /\ ex_pc' = "raised"
  /\ ex_err' = "OSError"
  /\ UNCHANGED <<CITIES, clock, rawStore, ex_i, attempt, data, response,
                 saved_files, requests, failures, fetched, written, nPersisted>>
  /\ UNCHANGED exFrame

\* the current second ends; the clock is read by extract_air_quality only,
\* so the seconds that end after it are not counted
Tick ==
  /\ ex_pc \notin {"returned", "raised"}
  /\ clock < MaxClock
  /\ clock' = clock + 1
  /\ UNCHANGED <<CITIES, rawStore, ex_pc, ex_i, attempt, data, response,
                 saved_files, ex_err, requests, failures, fetched, written,
                 nPersisted>>
  /\ UNCHANGED exFrame

(* --------------------------- task-2 load.py ---------------------------- *)

\* rows = df.to_dict(orient="records"): row k of the staged file is k
Rows(n) == [k \in 1..n |-> k]

\* end = min(start + batch_size, total)
BatchEnd_m(s, t) == IF s + batch_size < t THEN s + batch_size ELSE t - 1
BatchEnd(s, t) == IF s + batch_size < t THEN s + batch_size ELSE t

\* batch = rows[start:end]
Batch(s, t) == SubSeq(Rows(t), s + 1, BatchEnd(s, t))

\* supabase.table(table_name).insert(batch).execute(): the rows of the batch
\* are appended; the loader passes no key and asks for no upsert.
insert_m(tbl, batch) ==
  tbl \o SelectSeq(batch, LAMBDA r : \A k \in DOMAIN tbl : tbl[k] # r)
insert(tbl, batch) == tbl \o batch

\* while attempts < 3 and not success
\* for start in range(0, total, batch_size): the start after s
NextStart_m(s) == s + 2 * batch_size
NextStart(s) == s + batch_size

LoadRetry_m(att, suc) == att < MaxAttempts
LoadRetry(att, suc) == att < MaxAttempts /\ ~suc

\* if not success: ... break
BreaksOut_m(suc) == FALSE
BreaksOut(suc) == ~suc

\* print("Upload completed successfully!") after the loop
ReportsSuccess(failed) == TRUE

LoadInit ==
  /\ store = << >>
  /\ ld_pc = "idle"
  /\ total = 0
  /\ start = 0
  /\ attempts = 0
  /\ success = FALSE
  /\ tries = << >>
  /\ inserts = << >>
  /\ ld_failed = {}
  /\ ld_report = FALSE
  /\ ld_base = 0
  /\ ld_okruns = 0

\* for start in range(0, total, batch_size): the loop is at s with t rows;
\* past the last batch the function prints its report and returns
ForBatch(s, t, failed, tr, ins) ==
  IF s < t
    THEN /\ ld_pc' = "while"
         /\ start' = s
         /\ attempts' = 0
         /\ success' = FALSE
         /\ tries' = [k \in DOMAIN tr \cup {s} |-> IF k = s THEN 0 ELSE tr[k]]
         /\ inserts' = [k \in DOMAIN ins \cup {s} |-> IF k = s THEN 0 ELSE ins[k]]
         /\ ld_report' = FALSE
         /\ UNCHANGED ld_okruns
    ELSE /\ ld_pc' = "returned"
         /\ ld_report' = ReportsSuccess(failed)
         /\ ld_okruns' = IF failed = {} THEN ld_okruns + 1 ELSE ld_okruns
         /\ tries' = tr
         /\ inserts' = ins
         /\ UNCHANGED <<start, attempts, success>>

\* load_data is called: the staged file is read, or FileNotFoundError
load_data ==
  /\ ld_base' = Len(store)
  /\ ld_failed' = {}
  /\ IF staged = NoFile
       THEN /\ ld_pc' = "raised"
            /\ ld_report' = FALSE
            /\ tries' = << >>
            /\ inserts' = << >>
            /\ UNCHANGED <<total, start, attempts, success, ld_okruns>>
       ELSE /\ total' = staged
            /\ ForBatch(0, staged, {}, << >>, << >>)
  /\ UNCHANGED store

\* one pass of the while loop: supabase.table(...).insert(batch).execute()
UploadAttempt(ok) ==
  /\ ld_pc = "while"
  /\ LoadRetry(attempts, success)
  /\ tries' = [tries EXCEPT ![start] = @ + 1]
  /\ IF ok
       THEN /\ store' = insert(store, Batch(start, total))
            /\ success' = TRUE
            /\ inserts' = [inserts EXCEPT ![start] = @ + 1]
            /\ UNCHANGED attempts
       ELSE /\ attempts' = attempts + 1
            /\ UNCHANGED <<store, success, inserts>>
  /\ UNCHANGED <<ld_pc, total, start, ld_failed, ld_report, ld_base, ld_okruns>>
  /\ UNCHANGED ldFrame

\* an insert call, with what the store answers
Upload == \E ok \in BOOLEAN : UploadAttempt(ok)

\* the while loop is over: break on a failed batch, else the next batch
AfterWhile ==
  /\ ld_pc = "while"
  /\ ~LoadRetry(attempts, success)
  /\ ld_failed' = IF success THEN ld_failed ELSE ld_failed \cup {start}
  /\ IF BreaksOut(success)
       THEN /\ ld_pc' = "returned"
            /\ ld_report' = ReportsSuccess(ld_failed')
            /\ UNCHANGED <<start, attempts, success, tries, inserts, ld_okruns>>
       ELSE ForBatch(NextStart(start), total, ld_failed', tries, inserts)
  /\ UNCHANGED <<store, total, ld_base>>
  /\ UNCHANGED ldFrame

(* ----------------------- transform.py, analysis ------------------------ *)

RECURSIVE SumOver(_, _)
SumOver(f, S) ==
  IF S = {} THEN 0
  ELSE LET k == CHOOSE x \in S : TRUE
       IN f[k] + SumOver(f, S \ {k})

\* rows appended to all_rows for one raw file
RowsOf(p) == IF p.hourly THEN p.len ELSE 0

\* transform_data: no raw files prints and returns; an empty all_rows makes
\* df["time"] raise KeyError; otherwise dropna removes the rows without any
\* numeric value (dropped of them) and the staged file is replaced
transform_data(dropped) ==
  /\ tr_pc = "start"
  /\ LET raw_files == DOMAIN rawStore
         all_rows == SumOver([f \in raw_files |-> RowsOf(rawStore[f])], raw_files)
     IN IF raw_files = {}
          THEN /\ dropped = 0
               /\ tr_noraw' = TRUE
               /\ tr_pc' = "returned"
               /\ UNCHANGED staged
          ELSE IF all_rows = 0
                 THEN /\ dropped = 0
                      /\ tr_pc' = "raised"
                      /\ UNCHANGED <<tr_noraw, staged>>
                 ELSE /\ dropped <= all_rows
                      /\ staged' = all_rows - dropped
                      /\ tr_pc' = "returned"
                      /\ UNCHANGED tr_noraw
  /\ UNCHANGED <<exVars, runs, ldVars, anVars, plVars, tfVars>>

\* transform_data on the raw files, whatever their numeric values
Transform == \E dropped \in 0..(MaxHours * (MaxCities + 1)) : transform_data(dropped)

(* ------------------ transform.py, row by row ------------------------- *)

\* a JSON null, and NaN / NaT in a frame; measurements are never negative
NaN == 0 - 1
\* a JSON value that is neither a number nor null
Text == 0 - 2

\* the columns of a row, in the order of the zip
Fields == <<"time", "pm10", "pm2_5", "carbon_monoxide", "nitrogen_dioxide",
            "sulphur_dioxide", "ozone", "uv_index">>

num_cols == {"pm10", "pm2_5", "carbon_monoxide", "nitrogen_dioxide",
             "sulphur_dioxide", "ozone", "uv_index"}

\* hourly.get(f, [])
get_m(hourly, f) ==
  IF f \in DOMAIN hourly THEN hourly[f] ELSE [i \in 1..MaxLen |-> NaN]
get(hourly, f) == IF f \in DOMAIN hourly THEN hourly[f] ELSE << >>

\* zip(...): tuples of the elements at the same index, up to the end of the
\* first array that runs out
RECURSIVE zip(_)
zip(arrays) ==
  IF \E k \in DOMAIN arrays : arrays[k] = << >>
    THEN << >>
    ELSE <<[k \in DOMAIN arrays |-> Head(arrays[k])]>>
           \o zip([k \in DOMAIN arrays |-> Tail(arrays[k])])

\* the rows one raw file adds to all_rows; none when it has no "hourly"
rows_of(file) ==
  IF "hourly" \notin DOMAIN file.data
    THEN << >>
    ELSE LET hourly == file.data.hourly
             rows == zip([k \in DOMAIN Fields |-> get(hourly, Fields[k])])
         IN [i \in DOMAIN rows |->
              [city |-> file.city,
               time |-> rows[i][1],
               pm10 |-> rows[i][2],
               pm2_5 |-> rows[i][3],
               carbon_monoxide |-> rows[i][4],
               nitrogen_dioxide |-> rows[i][5],
               sulphur_dioxide |-> rows[i][6],
               ozone |-> rows[i][7],
               uv_index |-> rows[i][8]]]

\* for file in raw_files: ... all_rows.append(row)
RECURSIVE collect(_)
collect(files) ==
  IF files = << >> THEN << >>
  ELSE rows_of(Head(files)) \o collect(Tail(files))

\* pd.to_datetime / pd.to_numeric with errors="coerce"
to_numeric(v) == IF v = Text THEN NaN ELSE v

coerce(r) ==
  [c \in DOMAIN r |-> IF c = "city" THEN r[c] ELSE to_numeric(r[c])]

\* df.dropna(subset=num_cols, how="all")
dropna(rows) == SelectSeq(rows, LAMBDA r : \E c \in num_cols : r[c] # NaN)

\* arithmetic and comparison of frame values: NaN propagates, and every
\* comparison with NaN is false
Mul_m(a, k) == IF a = NaN THEN 0 ELSE a * k
Mul(a, k) == IF a = NaN THEN NaN ELSE a * k
Add(a, b) == IF a = NaN \/ b = NaN THEN NaN ELSE a + b
Gt_m(a, b) == a # NaN /\ a >= b
Gt(a, b) == a # NaN /\ a > b
Le(a, b) == a # NaN /\ a <= b

aqi_category(pm25) ==
  IF pm25 = NaN THEN "Unknown"
  ELSE IF Le(pm25, 50) THEN "Good"
  ELSE IF Le(pm25, 100) THEN "Moderate"
  ELSE IF Le(pm25, 200) THEN "Unhealthy"
  ELSE IF Le(pm25, 300) THEN "Very Unhealthy"
  ELSE "Hazardous"

classify_risk(sev) ==
  IF Gt(sev, 400) THEN "High Risk"
  ELSE IF Gt(sev, 200) THEN "Moderate Risk"
  ELSE "Low Risk"

\* df["severity"] = pm2_5*5 + pm10*3 + no2*4 + so2*4 + co*2 + ozone*3
severity(r) ==
  Add(Add(Add(Add(Add(Mul(r.pm2_5, 5), Mul(r.pm10, 3)),
                  Mul(r.nitrogen_dioxide, 4)),
              Mul(r.sulphur_dioxide, 4)),
          Mul(r.carbon_monoxide, 2)),
      Mul(r.ozone, 3))

\* the feature columns; time is counted in hours
features(r) ==
  LET sev == severity(r)
  IN [city |-> r.city, time |-> r.time, pm10 |-> r.pm10, pm2_5 |-> r.pm2_5,
      carbon_monoxide |-> r.carbon_monoxide,
      nitrogen_dioxide |-> r.nitrogen_dioxide,
      sulphur_dioxide |-> r.sulphur_dioxide,
      ozone |-> r.ozone, uv_index |-> r.uv_index,
      AQI_Category |-> aqi_category(r.pm2_5),
      severity |-> sev,
      Risk_Level |-> classify_risk(sev),
      hour |-> IF r.time = NaN THEN NaN ELSE r.time % 24]

\* python transform.py: transform_data() on the files of RAW_DIR; with no
\* file it prints and returns; with files but no row, df["time"] raises
\* KeyError; otherwise the frame is written to OUTPUT_FILE
TransformMain ==
  /\ pl_pc = "off"
  /\ tf_pc = "start"
  /\ IF tf_files = << >>
       THEN /\ tf_pc' = "norawfiles"
            /\ UNCHANGED <<tf_all_rows, tf_df>>
       ELSE LET all_rows == collect(tf_files)
                coerced == [i \in DOMAIN all_rows |-> coerce(all_rows[i])]
                kept == dropna(coerced)
            IN /\ tf_all_rows' = all_rows
               /\ IF all_rows = << >>
                    THEN tf_pc' = "raised" /\ UNCHANGED tf_df
                    ELSE /\ tf_pc' = "returned"
                         /\ tf_df' = [i \in DOMAIN kept |-> features(kept[i])]
  /\ UNCHANGED tf_files
  /\ UNCHANGED <<exVars, runs, staged, ldVars, trVars, anVars, plVars>>

(* --------------------------- etl_analysis.py --------------------------- *)

\* fetch_table_as_df: the rows the select returns, as a frame
fetch_table_as_df(tbl) == tbl

\* if df.empty: print("No data found in Supabase table."); return
df_empty_m(df) == FALSE
df_empty(df) == Len(df) = 0

\* etl_analysis.main: the select may fail (RuntimeError); an empty frame is
\* reported and main returns; otherwise the KPIs, trends, CSVs and plots are
\* computed, which raises when a column they name is missing (computeOk);
\* on a frame without rows and columns groupby("city") raises KeyError
analysis_main(queryOk, computeOk) ==
  /\ an_pc = "start"
  /\ IF ~queryOk
       THEN /\ an_pc' = "raised"
            /\ an_query' = "failed"
            /\ UNCHANGED <<an_nodata, an_out>>
       ELSE LET df == fetch_table_as_df(store)
            IN /\ an_query' = "ok"
               /\ IF df_empty(df)
                    THEN /\ an_nodata' = TRUE
                         /\ an_pc' = "returned"
                         /\ UNCHANGED an_out
                    ELSE /\ UNCHANGED an_nodata
                         /\ IF Len(df) > 0 /\ computeOk
                              THEN an_pc' = "returned" /\ an_out' = "saved"
                              ELSE an_pc' = "raised" /\ UNCHANGED an_out
  /\ UNCHANGED <<exVars, runs, staged, ldVars, trVars, plVars, tfVars>>

\* the analysis, with what the store answers to the query and whether the
\* rows carry the columns the KPIs name
Analyze == \E queryOk, computeOk \in BOOLEAN : analysis_main(queryOk, computeOk)

(* --------------------------- run_pipeline.py --------------------------- *)

StageOrder == <<"Extract", "Transform", "Load", "Analyze">>

\* except Exception: ... raise SystemExit
OnException_m(stage) == "continue"
OnException(stage) == "halt"

NotStarted == [s \in {"Extract", "Transform", "Load", "Analyze"} |-> "not_started"]

PipeInit ==
  /\ tr_pc = "idle"
  /\ tr_noraw = FALSE
  /\ an_pc = "idle"
  /\ an_nodata = FALSE
  /\ an_query = "none"
  /\ an_out = "none"
  /\ pl_pc = "off"
  /\ started = << >>
  /\ outcome = NotStarted
  /\ failedStage = "none"
  /\ finished = FALSE

\* main(): the banner, then run_step("Extract Step", extract_air_quality)
main ==
  /\ pl_pc = "off"
  /\ pl_pc' = "Extract"
  /\ started' = <<"Extract">>
  /\ outcome' = [NotStarted EXCEPT !["Extract"] = "running"]
  /\ failedStage' = "none"
  /\ finished' = FALSE
  /\ tr_pc' = "idle"
  /\ tr_noraw' = FALSE
  /\ an_pc' = "idle"
  /\ an_nodata' = FALSE
  /\ an_query' = "none"
  /\ an_out' = "none"
  /\ extract_air_quality
  /\ UNCHANGED <<runs, staged, ldVars, tfVars>>

\* position of the stage function of a stage
StagePc(stage) ==
  CASE stage = "Extract" -> ex_pc
    [] stage = "Transform" -> tr_pc
    [] stage = "Load" -> ld_pc
    [] stage = "Analyze" -> an_pc

\* main goes on after run_step(stage): the stage function returned, or the
\* handler of run_step lets the run continue
Go(stage) == StagePc(stage) = "returned" \/ OnException(stage) = "continue"

\* run_step sees its stage function end: "Completed", or the error report
\* and SystemExit; main then starts the next stage (next = stage: none left)
run_step(stage, next) ==
  /\ pl_pc = stage
  /\ StagePc(stage) \in {"returned", "raised"}
  /\ LET raised == StagePc(stage) = "raised"
         last == next = stage
     IN /\ outcome' = [outcome EXCEPT
                         ![stage] = IF raised THEN "raised" ELSE "completed",
                         ![next] = IF Go(stage) /\ ~last THEN "running" ELSE @]
        /\ failedStage' = IF raised THEN stage ELSE failedStage
        /\ pl_pc' = IF ~Go(stage) THEN "halted"
                    ELSE IF last THEN "finished" ELSE next
        /\ started' = IF Go(stage) /\ ~last THEN Append(started, next) ELSE started
        /\ finished' = (Go(stage) /\ last)

\* run_step("Extract Step", ...) ends; run_step("Transform Step", ...) starts
\* (the locals of extract_air_quality and the record of its call end with it;
\* main drops the list it returned)
ExtractDone ==
  /\ run_step("Extract", "Transform")
  /\ tr_pc' = IF Go("Extract") THEN "start" ELSE tr_pc
  /\ ex_i' = 1
  /\ attempt' = 1
  /\ data' = None
  /\ saved_files' = << >>
  /\ requests' = [i \in 1..Len(CITIES) |-> 0]
  /\ failures' = [i \in 1..Len(CITIES) |-> 0]
  /\ fetched' = [i \in 1..Len(CITIES) |-> "pending"]
  /\ written' = [i \in 1..Len(CITIES) |-> FALSE]
  /\ UNCHANGED <<CITIES, clock, rawStore, ex_pc, response, ex_err, nPersisted>>
  /\ UNCHANGED <<runs, staged, ldVars, tr_noraw, anVars, tfVars>>

\* run_step("Transform Step", ...) ends; run_step("Load Step", ...) starts
TransformDone ==
  /\ run_step("Transform", "Load")
  /\ IF Go("Transform") THEN load_data ELSE UNCHANGED ldVars
  /\ UNCHANGED <<exVars, runs, staged, trVars, anVars, tfVars>>

\* run_step("Load Step", ...) ends; run_step("Analysis Step", ...) starts
LoadDone ==
  /\ run_step("Load", "Analyze")
  /\ an_pc' = IF Go("Load") THEN "start" ELSE an_pc
  /\ UNCHANGED <<exVars, runs, staged, ldVars, trVars, an_nodata, an_query,
                 an_out, tfVars>>

\* run_step("Analysis Step", ...) ends; main prints the final report
AnalyzeDone ==
  /\ run_step("Analyze", "Analyze")
  /\ UNCHANGED <<exVars, runs, staged, ldVars, trVars, anVars, tfVars>>

\* transform.py has not been run as a script
TransformIdle ==
  /\ tf_pc = "idle"
  /\ tf_files = << >>
  /\ tf_all_rows = << >>
  /\ tf_df = << >>

Init ==
  /\ ExtractInit
  /\ LoadInit
  /\ PipeInit
  /\ TransformIdle
  /\ staged = NoFile
  /\ runs = 0

Next ==
  \/ main
  \/ NextCity
  \/ FetchAttempt
  \/ FetchReturned
  \/ SaveRaw
  \/ SaveRawFails
  \/ Tick
  \/ ExtractDone
  \/ Transform
  \/ TransformDone
  \/ Upload
  \/ AfterWhile
  \/ LoadDone
  \/ Analyze
  \/ AnalyzeDone

Spec == Init /\ [][Next]_vars

\* the inputs of a run followed to its end: RAW_DIR starts empty (an earlier
\* capture only matters to the file a write replaces), and the list starts
\* with Delhi or with a city that is not configured (Delhi and Mumbai are
\* treated alike by every step)
InitLive ==
  /\ Init
  /\ rawStore = << >>
  /\ CITIES[1] # "Mumbai"

\* the interpreter keeps running the one thread of the pipeline: every call
\* returns or raises, and a step that can be taken is taken
SpecLive == InitLive /\ [][Next]_vars /\ WF_vars(Next)

(* --------------------- extract.py run as a script ---------------------- *)

\* python extract.py
ExtractMain ==
  /\ pl_pc = "off"
  /\ ex_pc = "idle"
  /\ ld_pc = "idle"
  /\ extract_air_quality
  /\ UNCHANGED exFrame

NextExtract ==
  \/ ExtractMain
  \/ NextCity
  \/ FetchAttempt
  \/ FetchReturned
  \/ SaveRaw
  \/ SaveRawFails
  \/ Tick

SpecExtract == Init /\ [][NextExtract]_vars

(* ----------------------- load.py run as a script ----------------------- *)

InitLoad ==
  /\ ExtractInit
  /\ CITIES = <<"Delhi">>
  /\ rawStore = << >>
  /\ LoadInit
  /\ PipeInit
  /\ TransformIdle
  /\ staged \in {NoFile} \cup (0..MaxRows)
  /\ runs = 0

\* python load.py: create_table() may exit(); then load_data()
LoadMain(tableReady) ==
  /\ pl_pc = "off"
  /\ ld_pc \in {"idle", "returned", "raised", "exited"}
  /\ ex_pc = "idle"
  /\ runs < MaxLoadRuns
  /\ runs' = runs + 1
  /\ IF tableReady
       THEN load_data
       ELSE /\ ld_pc' = "exited"
            /\ tries' = << >>
            /\ inserts' = << >>
            /\ ld_failed' = {}
            /\ ld_report' = FALSE
            /\ ld_base' = Len(store)
            /\ UNCHANGED <<store, total, start, attempts, success, ld_okruns>>
  /\ UNCHANGED <<exVars, staged, trVars, anVars, plVars, tfVars>>

\* python load.py, whether or not create_table() finds or makes the table
LoadScript == \E tableReady \in BOOLEAN : LoadMain(tableReady)

NextLoad ==
  \/ LoadScript
  \/ Upload
  \/ AfterWhile

SpecLoad == InitLoad /\ [][NextLoad]_vars

(* -------------------- transform.py run as a script -------------------- *)

\* element i of the array of a field: the hour i for "time", else a reading
\* that tells the field and the hour
Reading(f, i) ==
  IF f = "time" THEN i
  ELSE 10 * i + (CHOOSE k \in DOMAIN Fields : Fields[k] = f)

\* an hourly container whose arrays hold n elements, except that the field
\* odd, if any, is one element short or is absent
Hourly(n, odd, mode) ==
  LET names == {Fields[k] : k \in DOMAIN Fields}
      present == IF mode = "absent" THEN names \ {odd} ELSE names
      len(f) == IF mode = "short" /\ f = odd /\ n > 0 THEN n - 1 ELSE n
  IN [f \in present |-> [i \in 1..len(f) |-> Reading(f, i)]]

\* a body without the "hourly" container
NoHourly == [error |-> TRUE]

RegularData ==
  {NoHourly} \cup {[hourly |-> Hourly(n, "none", "short")] : n \in 0..MaxLen}

OddData ==
  {[hourly |-> Hourly(n, Fields[k], mode)] :
     n \in 0..MaxLen, k \in DOMAIN Fields, mode \in {"short", "absent"}}

\* one to MaxFiles captures of configured cities, file k named by second k,
\* at most one of them with an odd field
ShapeInputs ==
  LET regular == UNION {[1..n -> CITY_COORDS \X RegularData] : n \in 1..MaxFiles}
      choices == {x \in regular \X (1..MaxFiles) \X (RegularData \cup OddData) :
                    x[2] \in DOMAIN x[1]}
  IN {[k \in DOMAIN x[1] |->
         [city |-> x[1][k][1],
          ts |-> k,
          data |-> IF k = x[2] THEN x[3] ELSE x[1][k][2]]] : x \in choices}

\* what one reading of a capture may hold
Vals == {NaN, Text, 0, 20, 50}

\* a capture of one hour
Capture(city, ts, p10, p25, co, no2, so2, oz, uv) ==
  [city |-> city,
   ts |-> ts,
   data |-> [hourly |-> [time |-> <<1>>, pm10 |-> <<p10>>, pm2_5 |-> <<p25>>,
                         carbon_monoxide |-> <<co>>,
                         nitrogen_dioxide |-> <<no2>>,
                         sulphur_dioxide |-> <<so2>>,
                         ozone |-> <<oz>>, uv_index |-> <<uv>>]]]

\* one capture of one hour, with every combination of readings; and the
\* worked example of the feature rules (pm2_5 60, pm10 40, no2 10, so2 5,
\* co 2, ozone 20) next to the same readings without the ozone
ValueInputs ==
  {<<Capture("Delhi", 1, p10, p25, co, no2, so2, oz, uv)>> :
     p10 \in Vals, p25 \in Vals, co \in Vals, no2 \in Vals, so2 \in Vals,
     oz \in Vals, uv \in {NaN, 3}}
  \cup {<<Capture("Delhi", 1, 40, 60, 2, 10, 5, 20, 3),
          Capture("Mumbai", 2, 40, 60, 2, 10, 5, NaN, 3)>>}

InitTransform ==
  /\ ExtractInit
  /\ CITIES = <<"Delhi">>
  /\ rawStore = << >>
  /\ LoadInit
  /\ PipeInit
  /\ staged = NoFile
  /\ runs = 0
  /\ tf_pc = "start"
  /\ tf_files \in {<< >>} \cup ShapeInputs \cup ValueInputs
  /\ tf_all_rows = << >>
  /\ tf_df = << >>

NextTransform == TransformMain

SpecTransform == InitTransform /\ [][NextTransform]_vars

(* ----------------- either script, each run on its own ------------------ *)

\* the inputs of extract.py with no staged file, or those of load.py
InitScripts == Init \/ InitLoad

\* python extract.py or python load.py
NextScripts ==
  \/ ExtractMain
  \/ NextCity
  \/ FetchAttempt
  \/ FetchReturned
  \/ SaveRaw
  \/ SaveRawFails
  \/ Tick
  \/ LoadScript
  \/ Upload
  \/ AfterWhile

SpecScripts == InitScripts /\ [][NextScripts]_vars

(* ------------------------------- claims -------------------------------- *)

\* starts of the batches of a dataset of t rows: range(0, t, batch_size)
BatchStarts(t) == { s \in 0..t : s < t /\ s % batch_size = 0 }

\* C1 (as stated): a batch that fails all 3 of its attempts is recorded as
\* failed and the loader moves on, so when load_data returns every batch of
\* the dataset has been attempted.
C1_MovesOn ==
  ld_pc = "returned" =>
    \A s \in BatchStarts(total) : s \in DOMAIN tries /\ tries[s] >= 1

\* C1 (amended): a batch that fails all 3 of its attempts is reported as not
\* uploaded and load_data stops there: the batch had exactly 3 attempts, none
\* succeeded, no later batch is ever attempted and the function returns.
C1_StopsAtFailedBatch ==
  \A f \in ld_failed :
    /\ tries[f] = MaxAttempts
    /\ inserts[f] = 0
    /\ ld_pc = "returned"
    /\ \A s \in DOMAIN tries : s <= f

C1_Witness ==
  /\ ld_pc = "returned"
  /\ ld_failed = {0}
  /\ total > batch_size

\* C2: the loader reports overall success only if every batch succeeded: in
\* a run in which a batch exhausted its retries, "Upload completed
\* successfully!" is not printed.
C2_SuccessOnlyIfAllUploaded ==
  ld_report => ld_failed = {}

\* C3: the orchestrator runs Extract, Transform, Load, Analyze in this order;
\* a stage starts only after the previous one completed without raising;
\* once a stage raised no later stage is started and the final report is not
\* printed; the final report needs all four stages completed.
C3_StagesInOrder ==
  /\ Len(started) <= Len(StageOrder)
  /\ started = SubSeq(StageOrder, 1, Len(started))
  /\ \A k \in 2..Len(started) : outcome[started[k - 1]] = "completed"
  /\ \A st \in DOMAIN outcome :
       outcome[st] = "raised" =>
         /\ pl_pc = "halted"
         /\ failedStage = st
         /\ started[Len(started)] = st
         /\ ~finished
  /\ finished => \A st \in DOMAIN outcome : outcome[st] = "completed"

C3_Witness ==
  /\ pl_pc = "halted"
  /\ failedStage = "Load"
  /\ started = <<"Extract", "Transform", "Load">>

\* C4: when the Transform stage finds no raw files the orchestrator halts
\* the pipeline with Transform as the failing stage, and Load and Analyze
\* are not run.
C4_NoRawFilesHalts ==
  (tr_noraw /\ pl_pc # "Transform") =>
    /\ pl_pc = "halted"
    /\ failedStage = "Transform"
    /\ outcome["Load"] = "not_started"
    /\ outcome["Analyze"] = "not_started"

\* C5: a city whose fetch exhausts its retries is skipped (no raw record is
\* written for it) and the loop goes on to the next city: the run never ends
\* at a city whose fetch failed, and when extract_air_quality returns every
\* city was fetched and saved_files holds one record per successful fetch.
C5_FetchFailureSkipsCity ==
  /\ \A i \in 1..Len(CITIES) : fetched[i] = "none" => ~written[i]
  /\ ex_pc = "raised" => fetched[ex_i] # "none"
  /\ ex_pc \in {"city", "fetch", "save"} =>
       \A i \in 1..Len(CITIES) : i < ex_i => fetched[i] # "pending"
  /\ ex_pc = "returned" =>
       /\ \A i \in 1..Len(CITIES) :
            /\ fetched[i] # "pending"
            /\ written[i] <=> fetched[i] = "ok"
       /\ Len(saved_files) = Cardinality({i \in 1..Len(CITIES) : fetched[i] = "ok"})

C5_Witness ==
  /\ ex_pc = "returned"
  /\ Len(CITIES) = 2
  /\ fetched[1] = "none"
  /\ fetched[2] = "ok"
  /\ Len(saved_files) = 1

\* C6: fetch_with_retry issues at most MAX_RETRIES requests per city; the
\* successful request is the last one issued for the city (no request
\* follows it); the result is None exactly when MAX_RETRIES requests failed.
C6_BoundedRetries ==
  /\ [](\A i \in 1..Len(CITIES) :
          /\ requests[i] <= MAX_RETRIES
          /\ fetched[i] = "ok" => requests[i] = failures[i] + 1
          /\ fetched[i] # "ok" => requests[i] = failures[i]
          /\ fetched[i] = "none" <=> failures[i] = MAX_RETRIES)
  /\ [][\A i \in 1..Len(CITIES) :
          fetched[i] = "ok" => requests'[i] = requests[i]]_vars

C6_Witness ==
  /\ fetched[1] = "ok"
  /\ failures[1] = MAX_RETRIES - 1
  /\ data # None

\* C7: when the raw write of one city fails, the cities after it in the
\* configured list are still fetched.
C7_WriteFailureKeepsBatch ==
  (ex_pc = "raised" /\ ex_err = "OSError") =>
    \A j \in 1..Len(CITIES) : j > ex_i => fetched[j] # "pending"

\* C8: the raw store is append-only: a raw write never replaces an earlier
\* raw record, so the store holds as many records as writes completed.
C8_AppendOnly ==
  Cardinality(DOMAIN rawStore) = nPersisted

\* C9: each batch is attempted at most 3 times, a further attempt follows
\* only failed attempts, no attempt is made on a batch after it succeeded,
\* and the rows one run inserted into the table are pairwise distinct.
C9_AtMostOnce ==
  /\ [](/\ \A s \in DOMAIN tries :
             /\ tries[s] <= MaxAttempts
             /\ inserts[s] <= 1
             /\ s = start => tries[s] = attempts + inserts[s]
         /\ Cardinality({store[k] : k \in (ld_base + 1)..Len(store)})
              = Len(store) - ld_base)
  /\ [][\A s \in DOMAIN inserts :
          (inserts[s] >= 1 /\ runs' = runs) => tries'[s] = tries[s]]_vars

C9_Witness ==
  /\ ld_pc = "returned"
  /\ DOMAIN tries = {0, batch_size}
  /\ tries[0] = MaxAttempts
  /\ inserts[0] = 1
  /\ inserts[batch_size] = 1

\* C10: starting from an empty table, when load_data returns without a
\* permanently failed batch the table holds as many rows as the staged
\* dataset, whatever its size and whatever the transient failures.
C10_RoundTrip ==
  (ld_pc = "returned" /\ ld_failed = {} /\ ld_base = 0) =>
    Len(store) = staged

C10_Witness ==
  /\ ld_pc = "returned"
  /\ ld_failed = {}
  /\ ld_base = 0
  /\ staged > batch_size
  /\ staged % batch_size # 0
  /\ \E s \in DOMAIN tries : tries[s] > 1

\* C13: the loader is not idempotent: a run of load_data that returns without
\* a failed batch appends every staged row again, in order, whatever the
\* table already holds; after k runs, all without a failed batch, on a
\* dataset of n rows the table holds k*n rows, each row k times.
C13_NotIdempotent ==
  /\ (ld_pc = "returned" /\ ld_failed = {}) =>
       SubSeq(store, ld_base + 1, Len(store)) = Rows(staged)
  /\ (ld_pc = "returned" /\ ld_okruns = runs) =>
       /\ Len(store) = runs * staged
       /\ \A k \in 1..Len(store) : store[k] = ((k - 1) % staged) + 1

C13_Witness ==
  /\ ld_pc = "returned"
  /\ runs = 2
  /\ ld_okruns = 2
  /\ staged > batch_size
  /\ Len(store) = 2 * staged

\* C20: at every point of a run of load_data the rows the run has inserted
\* are the rows of the first batches of the dataset, in order and complete:
\* no inserted batch follows a batch that was not inserted.
C20_InsertedIsPrefix ==
  LET n == Len(store) - ld_base
  IN /\ n <= total
     /\ SubSeq(store, ld_base + 1, Len(store)) = Rows(n)
     /\ n % batch_size = 0 \/ n = total
     /\ \A s \in DOMAIN inserts : inserts[s] >= 1 <=> s < n

C20_Witness ==
  /\ ld_pc = "returned"
  /\ total > 2 * batch_size
  /\ ld_failed = {batch_size}
  /\ Len(store) - ld_base = batch_size

\* C19 (as stated): a request fails exactly when its status is not 2xx or
\* the transport fails; a request answered with any 2xx status is accepted.
C19_Any2xxAccepted ==
  (ex_pc = "fetched" /\ response \in {"s200", "s2xx"}) => fetched[ex_i] = "ok"

\* C19: a request of fetch_with_retry fails, and is followed by the 1-second
\* backoff and, while attempts remain, by a retry, exactly when its status is
\* not 200 or the request raises; a request answered with status 200 is
\* accepted and its body is returned; any other 2xx status is a failure.
C19_Only200Accepted ==
  /\ [](ex_pc = "fetched" =>
          /\ response = "s200" <=> fetched[ex_i] = "ok"
          /\ response = "s200" <=> data # None)
  /\ [][(ex_pc = "fetch" /\ requests'[ex_i] = requests[ex_i] + 1) =>
          IF response' = "s200"
            THEN /\ ex_pc' = "fetched"
                 /\ fetched'[ex_i] = "ok"
                 /\ data' \in {Some(p) : p \in Payloads}
                 /\ failures' = failures
                 /\ clock' = clock
            ELSE /\ failures'[ex_i] = failures[ex_i] + 1
                 /\ clock' = clock + BACKOFF
                 /\ fetched'[ex_i] # "ok"
                 /\ IF attempt < MAX_RETRIES
                      THEN ex_pc' = "fetch" /\ attempt' = attempt + 1
                      ELSE ex_pc' = "fetched" /\ data' = None]_vars

C19_Witness ==
  /\ ex_pc = "fetched"
  /\ response = "s200"
  /\ failures[ex_i] = 1
  /\ clock = BACKOFF
  /\ data # None

\* C16: when the select of the Analyze stage is answered with zero rows, the
\* stage does not raise: it prints the "no data" message and returns, with
\* no KPI, distribution or trend output saved, and the orchestrator then
\* reports the stage completed and the run finished.
C16_EmptyDatasetNoData ==
  /\ (an_pc \in {"returned", "raised"} /\ an_query = "ok" /\ Len(store) = 0) =>
       /\ an_pc = "returned"
       /\ an_nodata
       /\ an_out = "none"
  /\ (pl_pc \in {"finished", "halted"} /\ an_query = "ok" /\ Len(store) = 0) =>
       /\ pl_pc = "finished"
       /\ finished
       /\ outcome["Analyze"] = "completed"
       /\ failedStage = "none"

C16_Witness ==
  /\ pl_pc = "finished"
  /\ an_query = "ok"
  /\ Len(store) = 0
  /\ an_nodata
  /\ an_out = "none"
  /\ finished

\* C14: cities are fetched in the order of CITIES: a request is issued for
\* the current city only, every city before it has had its last attempt and
\* no city after it has had a request. Batches are uploaded in the order of
\* range(0, total, batch_size): an insert is attempted for the current batch
\* only, every batch before it has been attempted and inserted, and no batch
\* after it has been attempted.
C14_Ordering ==
  /\ [](\A i, j \in 1..Len(CITIES) :
          (i < j /\ requests[j] > 0) => fetched[i] # "pending")
  /\ [][\A i \in 1..Len(CITIES) :
          requests'[i] > requests[i] =>
            /\ i = ex_i
            /\ \A j \in 1..Len(CITIES) :
                 /\ j < i => fetched[j] # "pending"
                 /\ j > i => requests[j] = 0]_vars
  /\ [](ld_pc = "while" =>
          /\ DOMAIN tries = {s \in BatchStarts(total) : s <= start}
          /\ \A s \in DOMAIN tries : s < start => inserts[s] >= 1)
  /\ [][\A s \in DOMAIN tries :
          (s \in DOMAIN tries' /\ tries'[s] > tries[s]) =>
            /\ s = start
            /\ \A s2 \in DOMAIN tries :
                 /\ s2 < s => inserts[s2] >= 1
                 /\ s2 <= s]_vars

C14_Witness ==
  /\ \/ /\ ex_pc = "returned"
        /\ Len(CITIES) = 2
        /\ failures[1] >= 1
        /\ requests[2] >= 2
     \/ /\ ld_pc = "returned"
        /\ DOMAIN tries = {0, batch_size, 2 * batch_size}
        /\ tries[0] >= 2
        /\ tries[batch_size] >= 2

\* the least length of the eight arrays of a body, an absent array counting
\* as empty; 0 for a body without "hourly"
RowCount(file) ==
  IF "hourly" \notin DOMAIN file.data
    THEN 0
    ELSE LET h == file.data.hourly
             lens == {IF Fields[k] \in DOMAIN h THEN Len(h[Fields[k]]) ELSE 0 :
                        k \in DOMAIN Fields}
         IN CHOOSE m \in lens : \A l \in lens : m <= l

\* rows the files before file k add
RowsBefore(files, k) ==
  SumOver([j \in 1..(k - 1) |-> RowCount(files[j])], 1..(k - 1))

\* C15: once the loop over the raw files has ended, all_rows holds, file
\* after file, exactly min(lengths of the eight arrays) rows per file, row i
\* made of the city of the file and element i of every array; a file with an
\* absent array or without "hourly" adds no row and does not keep the other
\* files from being normalized; the run raises only when all_rows is empty.
C15_Normalization ==
  tf_pc \in {"returned", "raised"} =>
    /\ Len(tf_all_rows) = RowsBefore(tf_files, Len(tf_files) + 1)
    /\ \A k \in DOMAIN tf_files :
         \A i \in 1..RowCount(tf_files[k]) :
           LET row == tf_all_rows[RowsBefore(tf_files, k) + i]
           IN /\ row.city = tf_files[k].city
              /\ \A j \in DOMAIN Fields :
                   row[Fields[j]] = tf_files[k].data.hourly[Fields[j]][i]
    /\ tf_pc = "raised" <=> tf_all_rows = << >>

C15_Witness ==
  /\ tf_pc = "returned"
  /\ Len(tf_files) = 2
  /\ "hourly" \notin DOMAIN tf_files[1].data
  /\ "hourly" \in DOMAIN tf_files[2].data
  /\ Len(tf_files[2].data.hourly["time"]) = MaxLen
  /\ Len(tf_files[2].data.hourly["ozone"]) = MaxLen - 1
  /\ Len(tf_all_rows) = MaxLen - 1

\* the six pollutant columns
Pollutants == {"pm2_5", "pm10", "carbon_monoxide", "nitrogen_dioxide",
               "sulphur_dioxide", "ozone"}

\* C11: no row of the staged frame has all six pollutant columns null,
\* whatever its uv_index holds.
C11_NoRowWithoutPollutants ==
  tf_pc = "returned" =>
    \A i \in DOMAIN tf_df : \E c \in Pollutants : tf_df[i][c] # NaN

\* C12: the staged frame never holds two rows with the same city and the
\* same time.
C12_OneRowPerCityTime ==
  tf_pc = "returned" =>
    \A i, j \in DOMAIN tf_df :
      (tf_df[i].city = tf_df[j].city /\ tf_df[i].time = tf_df[j].time) => i = j

\* C17: every staged row has one of the three risk levels: High Risk when
\* its severity is above 400, Moderate Risk when it is above 200 and at most
\* 400, and Low Risk otherwise, that is at 200 or less and when it is null.
C17_RiskPartition ==
  tf_pc = "returned" =>
    \A i \in DOMAIN tf_df :
      LET sev == tf_df[i].severity
          risk == tf_df[i].Risk_Level
      IN /\ risk \in {"High Risk", "Moderate Risk", "Low Risk"}
         /\ risk = "High Risk" <=> (sev # NaN /\ sev > 400)
         /\ risk = "Moderate Risk" <=> (sev # NaN /\ sev > 200 /\ sev <= 400)
         /\ risk = "Low Risk" <=> (sev = NaN \/ sev <= 200)

C17_Witness ==
  /\ tf_pc = "returned"
  /\ Len(tf_df) = 1
  /\ tf_df[1].severity = 200
  /\ tf_df[1].Risk_Level = "Low Risk"

\* C18: the severity of a staged row is 5*pm2_5 + 3*pm10 + 4*nitrogen_dioxide
\* + 4*sulphur_dioxide + 2*carbon_monoxide + 3*ozone when the six are not
\* null and is null as soon as one of them is; the readings 60, 40, 10, 5,
\* 2, 20 give 544 and High Risk.
C18_Severity ==
  tf_pc = "returned" =>
    \A i \in DOMAIN tf_df :
      LET r == tf_df[i]
      IN /\ (\A c \in Pollutants : r[c] # NaN) =>
              r.severity = 5 * r.pm2_5 + 3 * r.pm10 + 4 * r.nitrogen_dioxide
                           + 4 * r.sulphur_dioxide + 2 * r.carbon_monoxide
                           + 3 * r.ozone
         /\ (\E c \in Pollutants : r[c] = NaN) => r.severity = NaN
         /\ (/\ r.pm2_5 = 60 /\ r.pm10 = 40 /\ r.nitrogen_dioxide = 10
             /\ r.sulphur_dioxide = 5 /\ r.carbon_monoxide = 2 /\ r.ozone = 20) =>
              (r.severity = 544 /\ r.Risk_Level = "High Risk")

C18_Witness ==
  /\ tf_pc = "returned"
  /\ Len(tf_df) = 2
  /\ tf_df[1].pm2_5 = 60
  /\ tf_df[1].severity = 544
  /\ tf_df[1].Risk_Level = "High Risk"
  /\ tf_df[2].pm2_5 = 60
  /\ tf_df[2].ozone = NaN
  /\ tf_df[2].severity = NaN

\* steps extract_air_quality may still take: per city left, the lookup, at
\* most MAX_RETRIES requests, the return of the fetch and the write
ExtractLeft ==
  LET perCity == MAX_RETRIES + 4
      inCity == CASE ex_pc = "city" -> MAX_RETRIES + 3
                  [] ex_pc = "fetch" -> (MAX_RETRIES + 1 - attempt) + 2
                  [] ex_pc = "fetched" -> 2
                  [] ex_pc = "save" -> 1
                  [] OTHER -> 0
  IN IF ex_pc \in {"city", "fetch", "fetched", "save"}
       THEN (Len(CITIES) + 1 - ex_i) * perCity + inCity
       ELSE 0

\* steps load_data may still take: per batch left, at most MaxAttempts
\* inserts and the test that follows the while loop
LoadLeft ==
  LET perBatch == MaxAttempts + 2
      left == Cardinality({s \in BatchStarts(total) : s >= start})
      inBatch == IF success THEN 1 ELSE (MaxAttempts - attempts) + 1
  IN IF ld_pc = "while" THEN left * perBatch + inBatch ELSE 0

\* steps the pipeline run may still take: the stages not yet ended, each
\* weighing more than any stage can take, and the steps left in the stage
Rank ==
  LET weight == (MaxCities + 1) * (MAX_RETRIES + 4)
                + (MaxRows + 1) * (MaxAttempts + 2) + 2
      stagesLeft == CASE pl_pc = "off" -> 5
                      [] pl_pc = "Extract" -> 4
                      [] pl_pc = "Transform" -> 3
                      [] pl_pc = "Load" -> 2
                      [] pl_pc = "Analyze" -> 1
                      [] OTHER -> 0
  IN stagesLeft * weight + ExtractLeft + LoadLeft
     + (IF tr_pc = "start" THEN 1 ELSE 0) + (IF an_pc = "start" THEN 1 ELSE 0)

\* C21: a pipeline run that has started always ends, finished or halted,
\* for every pattern of failures: every step of the run, other than the
\* passing of a second, lowers a count of the steps left that is bounded by
\* MAX_RETRIES requests per city and MaxAttempts inserts per batch and is
\* never negative, and a second passes without lowering it only while the
\* run and its position stay the same.
C21_Terminates ==
  /\ (pl_pc # "off") ~> (pl_pc \in {"finished", "halted"})
  /\ [](Rank >= 0)
  /\ [](pl_pc \in {"finished", "halted"} => Rank = 0)
  /\ [][\/ Rank' < Rank
        \/ /\ Rank' = Rank
           /\ clock' > clock
           /\ <<pl_pc, ex_pc, ex_i, attempt, ld_pc, tr_pc, an_pc>>' =
                <<pl_pc, ex_pc, ex_i, attempt, ld_pc, tr_pc, an_pc>>]_vars

C21_Witness ==
  /\ pl_pc = "finished"
  /\ Rank = 0
  /\ clock >= BACKOFF
  /\ ld_failed = {0}
  /\ tries[0] = MaxAttempts
====
